---- MODULE Spec2Model ----
(***************************************************************************)
(* Model of the authentication front end: the Redux authentication slice   *)
(* (store/slices/authSlice.ts), the secure session store                   *)
(* (utils/secureStorage.ts), the axios interceptors (services/api.ts) and  *)
(* the persisted envelope of redux-persist (store/store.ts, App.tsx), and  *)
(* the OAuth callback handler (components/OAuthCallback.tsx).              *)
(* Three specifications: Spec is the application, StorageSpec the facade   *)
(* of the secure session store on its own, EncSpec the encryption          *)
(* utilities and the persistence adapter on strings.                       *)
(*                                                                         *)
(* The browser's localStorage is one variable, ls, plus the persisted      *)
(* envelope under 'persist:root'.  The secure-ls library is opaque: each   *)
(* of its calls either succeeds or throws, which is what the try/catch     *)
(* around every call in SecureStorageService provides for; the outcome of  *)
(* every call is an input of the action that makes it.                     *)
(***************************************************************************)
EXTENDS Naturals, Sequences, FiniteSets, TLC

VARIABLES auth, ls, persisted, inflight, pc, dirty, navPending, ops, lastEvent, enc

vars == <<auth, ls, persisted, inflight, pc, dirty, navPending, ops, lastEvent, enc>>

\* the variables of the application (enc belongs to the encryption utilities)
appVars == <<auth, ls, persisted, inflight, pc, dirty, navPending, ops, lastEvent>>

----------------------------------------------------------------------------
(* Bounds and value domains *)

\* at most this many gateway requests are outstanding at once
MaxInFlight == 2
\* at most this many operations are started (dispatches, logouts, restarts)
MaxOps == 2

\* JavaScript null / undefined
Null == "null"
\* a value that is not null but falsy in JavaScript (0, false, "")
Falsy == "falsy"

Tokens == {"t1", "t2"}
Users == {"u1", "u2"}
\* the bodies {user, token} a gateway success response carries
Sessions == {[token |-> "t1", user |-> "u1"], [token |-> "t2", user |-> "u2"]}
NoData == [token |-> Null, user |-> Null]
\* message strings of gateway responses; "" is a response without message
Messages == {"m1", ""}

Truthy(v) == v \notin {Null, Falsy, ""}

\* state.users after `state.users = action.payload` with an undefined payload
\* (kept a sequence, as every value of state.users is)
UndefinedUsers == <<"undefined">>

----------------------------------------------------------------------------
(* localStorage *)

SECURE_TOKEN == "auth_token"
SECURE_USER == "user_data"
\* the sentinel key of isSecureStorageWorking
TEST_KEY == "__test__"
LsKeys == {SECURE_TOKEN, SECURE_USER, "token", "user", TEST_KEY}

\* an absent item; stored items are <<encoding, value>>
NoItem == <<>>
SecureLsItem(v) == <<"securels", v>>
RawItem(v) == <<"raw", v>>
JsonItem(v) == <<"json", v>>

\* no item under 'persist:root'
NoEnvelope == <<>>

ItemValue(item) == IF item = NoItem THEN Null ELSE item[2]

\* outcomes of a secure-ls write: stored, secure-ls threw and the fallback
\* localStorage.setItem stored, or the fallback threw as well
SetOutcomes == {"ok", "fallback", "throw"}
\* outcomes of a secure-ls read or remove: done, or secure-ls threw
CallOutcomes == {"ok", "fallback"}

----------------------------------------------------------------------------
(* SecureStorageService (utils/secureStorage.ts) *)

setToken(l, token, o) ==
    CASE o = "ok" -> [l EXCEPT ![SECURE_TOKEN] = SecureLsItem(token)]
      [] o = "fallback" -> [l EXCEPT !["token"] = RawItem(token)]
      [] OTHER -> l

getToken(l, o) ==
    IF o = "ok"
    THEN (IF Truthy(ItemValue(l[SECURE_TOKEN])) THEN ItemValue(l[SECURE_TOKEN]) ELSE Null)
    ELSE ItemValue(l["token"])

removeToken(l, o) ==
    IF o = "ok" THEN [l EXCEPT ![SECURE_TOKEN] = NoItem]
    ELSE [l EXCEPT !["token"] = NoItem]

setUser(l, user, o) ==
    CASE o = "ok" -> [l EXCEPT ![SECURE_USER] = SecureLsItem(user)]
      [] o = "fallback" -> [l EXCEPT !["user"] = JsonItem(user)]
      [] OTHER -> l

getUser(l, o) ==
    IF o = "ok"
    THEN (IF Truthy(ItemValue(l[SECURE_USER])) THEN ItemValue(l[SECURE_USER]) ELSE Null)
    ELSE (IF l["user"] # NoItem THEN ItemValue(l["user"]) ELSE Null)

removeUser(l, o) ==
    IF o = "ok" THEN [l EXCEPT ![SECURE_USER] = NoItem]
    ELSE [l EXCEPT !["user"] = NoItem]

\* isSecureStorageWorking(): set, get and remove of the sentinel inside one
\* try; the catch returns false.  The value returned and the storage left
isSecureStorageWorking(l, oSet, oGet, oRem) ==
    LET stored == [l EXCEPT ![TEST_KEY] = SecureLsItem("test")] IN
    IF oSet # "ok" THEN [ret |-> FALSE, ls |-> l]
    ELSE IF oGet # "ok" \/ oRem # "ok" THEN [ret |-> FALSE, ls |-> stored]
    ELSE [ret |-> ItemValue(stored[TEST_KEY]) = "test",
          ls |-> [stored EXCEPT ![TEST_KEY] = NoItem]]

----------------------------------------------------------------------------
(* services/api.ts: the interceptors and the authAPI wrappers *)

NETWORK_ERROR == "Network error occurred"
\* message of the exception a failing localStorage.setItem throws
STORAGE_ERROR == "QuotaExceededError"

GatewayFamilies == {"signup", "login", "forgotPassword", "resetPassword", "getUsers"}
AuthFamilies == {"signup", "login", "googleOAuthSuccess"}

\* what the gateway may answer to a request of family fam
OkResponses(fam) ==
    CASE fam \in {"signup", "login"} ->
           {[kind |-> "ok", message |-> "m1", data |-> d, users |-> <<>>] : d \in Sessions}
      [] fam = "forgotPassword" ->
           {[kind |-> "ok", message |-> "m1", data |-> NoData, users |-> <<>>]}
      [] fam = "resetPassword" ->
           {[kind |-> "ok", message |-> "m1", data |-> d, users |-> <<>>] :
               d \in Sessions \cup {NoData}}
      [] OTHER ->
           {[kind |-> "ok", message |-> "m1", data |-> NoData, users |-> <<"u1">>]}

\* an error status with a body {success: false, message}, a 401, or no response
ErrorResponses ==
    {[kind |-> "fail", message |-> m, data |-> NoData, users |-> <<>>] : m \in Messages}
    \cup {[kind |-> "unauthorized", message |-> "m1", data |-> NoData, users |-> <<>>],
          [kind |-> "network", message |-> "", data |-> NoData, users |-> <<>>]}

\* a response with a success status whose body is {success: false, message}:
\* axios resolves, the authAPI wrapper returns the body
SuccessFalseResponses ==
    {[kind |-> "success_false", message |-> "m1", data |-> NoData, users |-> UndefinedUsers]}

Responses(fam) == OkResponses(fam) \cup ErrorResponses \cup SuccessFalseResponses

\* whether the authAPI wrapper returns the body (true) or throws (false)
resolves(resp) == resp.kind \in {"ok", "success_false"}

\* the Authorization header `Bearer ${token}`, and a request without one
Bearer(token) == <<"Bearer", token>>
NoHeader == <<>>

\* request interceptor: the Authorization header of the request it lets through
requestInterceptor(l) ==
    IF Truthy(ItemValue(l["token"])) THEN Bearer(ItemValue(l["token"])) ELSE NoHeader

\* response interceptor, error branch: the storage after it ran
responseInterceptor(l, resp) ==
    IF resp.kind = "unauthorized"
    THEN [l EXCEPT !["token"] = NoItem, !["user"] = NoItem]
    ELSE l

\* whether the response interceptor assigned window.location.href
redirectsToLogin(resp) == resp.kind = "unauthorized"

\* the message of the ApiError an authAPI wrapper throws for an error response
apiError(resp) == IF resp.kind = "network" THEN NETWORK_ERROR ELSE resp.message

----------------------------------------------------------------------------
(* store/slices/authSlice.ts: initial state and reducers *)

initialState ==
    [user |-> Null, token |-> Null, isAuthenticated |-> FALSE, isLoading |-> FALSE,
     error |-> Null, users |-> <<>>, forgotPasswordMessage |-> Null,
     resetPasswordMessage |-> Null]

\* action.payload || fallback
OrDefault(payload, fallback) == IF Truthy(payload) THEN payload ELSE fallback

DefaultError(fam) ==
    CASE fam = "signup" -> "Signup failed"
      [] fam = "login" -> "Login failed"
      [] fam = "forgotPassword" -> "Failed to send reset email"
      [] fam = "resetPassword" -> "Failed to reset password"
      [] fam = "getUsers" -> "Failed to fetch users"
      [] fam = "googleOAuth" -> "Failed to initiate Google OAuth"
      [] OTHER -> "Failed to process Google OAuth success"

\* the state part of the logout reducer (its storage part is logoutStorage)
logout(s) ==
    [s EXCEPT !.user = Null, !.token = Null, !.isAuthenticated = FALSE, !.error = Null,
              !.users = <<>>, !.forgotPasswordMessage = Null,
              !.resetPasswordMessage = Null]

logoutStorage(l, oTok, oUsr) == removeUser(removeToken(l, oTok), oUsr)

clearErrors(s) == [s EXCEPT !.error = Null]

clearMessages(s) ==
    [s EXCEPT !.forgotPasswordMessage = Null, !.resetPasswordMessage = Null]

clearSuccessFlags(s) ==
    [s EXCEPT !.forgotPasswordMessage = Null, !.resetPasswordMessage = Null]

loadUserFromStorage(s, token, user) ==
    IF Truthy(token) /\ Truthy(user)
    THEN [s EXCEPT !.user = user, !.token = token, !.isAuthenticated = TRUE]
    ELSE s

setLoading(s, payload) == [s EXCEPT !.isLoading = payload]

setError(s, payload) == [s EXCEPT !.error = payload]

\* mutant: the pending case leaves state.error as it was
pendingReducer_keepsError(s, fam) ==
    CASE fam = "forgotPassword" ->
           [s EXCEPT !.isLoading = TRUE, !.forgotPasswordMessage = Null]
      [] fam = "resetPassword" ->
           [s EXCEPT !.isLoading = TRUE, !.resetPasswordMessage = Null]
      [] OTHER -> [s EXCEPT !.isLoading = TRUE]

\* the pending case of every family
pendingReducer(s, fam) ==
    CASE fam = "forgotPassword" ->
           [s EXCEPT !.isLoading = TRUE, !.error = Null, !.forgotPasswordMessage = Null]
      [] fam = "resetPassword" ->
           [s EXCEPT !.isLoading = TRUE, !.error = Null, !.resetPasswordMessage = Null]
      [] OTHER -> [s EXCEPT !.isLoading = TRUE, !.error = Null]

\* whether `action.payload.user` throws: the payload is undefined
reducerThrows(payload) == payload = NoData

\* signupUser.fulfilled, loginUser.fulfilled, googleOAuthSuccess.fulfilled; when
\* the case throws, the draft is discarded and the state stays as it was
authFulfilled(s, payload) ==
    IF reducerThrows(payload) THEN s
    ELSE [s EXCEPT !.isLoading = FALSE, !.user = payload.user, !.token = payload.token,
                   !.isAuthenticated = TRUE, !.error = Null]

\* mutant: the rejected case forgets `state.isAuthenticated = false`
authRejected_keepsFlag(s, fam, payload) ==
    [s EXCEPT !.isLoading = FALSE, !.error = OrDefault(payload, DefaultError(fam)),
              !.user = Null, !.token = Null]

\* mutant: the rejected case forgets to set state.error
authRejected_noError(s, fam, payload) ==
    [s EXCEPT !.isLoading = FALSE, !.user = Null, !.token = Null,
              !.isAuthenticated = FALSE]

\* signupUser.rejected, loginUser.rejected, googleOAuthSuccess.rejected
authRejected(s, fam, payload) ==
    [s EXCEPT !.isLoading = FALSE, !.error = OrDefault(payload, DefaultError(fam)),
              !.user = Null, !.token = Null, !.isAuthenticated = FALSE]

forgotPasswordFulfilled(s, resp) ==
    [s EXCEPT !.isLoading = FALSE, !.forgotPasswordMessage = resp.message,
              !.error = Null]

\* mutant: the rejected case rolls the session back as loginUser.rejected does
forgotPasswordRejected_clearsSession(s, payload) ==
    [s EXCEPT !.isLoading = FALSE,
              !.error = OrDefault(payload, DefaultError("forgotPassword")),
              !.forgotPasswordMessage = Null, !.user = Null, !.token = Null,
              !.isAuthenticated = FALSE]

forgotPasswordRejected(s, payload) ==
    [s EXCEPT !.isLoading = FALSE,
              !.error = OrDefault(payload, DefaultError("forgotPassword")),
              !.forgotPasswordMessage = Null]

resetPasswordFulfilled(s, resp) ==
    IF resp.data # NoData
    THEN [s EXCEPT !.isLoading = FALSE, !.resetPasswordMessage = resp.message,
                   !.error = Null, !.user = resp.data.user, !.token = resp.data.token,
                   !.isAuthenticated = TRUE]
    ELSE [s EXCEPT !.isLoading = FALSE, !.resetPasswordMessage = resp.message,
                   !.error = Null]

resetPasswordRejected(s, payload) ==
    [s EXCEPT !.isLoading = FALSE,
              !.error = OrDefault(payload, DefaultError("resetPassword")),
              !.resetPasswordMessage = Null]

getUsersFulfilled(s, payload) ==
    [s EXCEPT !.isLoading = FALSE, !.users = payload, !.error = Null]

getUsersRejected(s, payload) ==
    [s EXCEPT !.isLoading = FALSE, !.error = OrDefault(payload, DefaultError("getUsers"))]

googleOAuthFulfilled(s) == [s EXCEPT !.isLoading = FALSE, !.error = Null]

googleOAuthRejected(s, payload) ==
    [s EXCEPT !.isLoading = FALSE,
              !.error = OrDefault(payload, DefaultError("googleOAuth"))]

----------------------------------------------------------------------------
(* store/slices/authSlice.ts: the thunk bodies.  A thunk body yields the   *)
(* action it ends in (fulfilled, or rejected with the extracted message)   *)
(* and the storage it leaves behind.                                       *)

Fulfilled(l) == [type |-> "fulfilled", error |-> Null, ls |-> l]
Rejected(message, fallback, l) ==
    [type |-> "rejected", error |-> OrDefault(message, fallback), ls |-> l]

\* the block `if (...) { secureStorage.setToken(t); secureStorage.setUser(u) }`
\* inside a try whose catch rejects with error.message || fallback
storeSession(l, data, fallback, oTok, oUsr) ==
    IF oTok = "throw" THEN Rejected(STORAGE_ERROR, fallback, l)
    ELSE IF oUsr = "throw"
         THEN Rejected(STORAGE_ERROR, fallback, setToken(l, data.token, oTok))
         ELSE Fulfilled(setUser(setToken(l, data.token, oTok), data.user, oUsr))

signupUser(l, resp, oTok, oUsr) ==
    IF resolves(resp)
    THEN (IF resp.kind = "ok" /\ Truthy(resp.data.token)
          THEN storeSession(l, resp.data, DefaultError("signup"), oTok, oUsr)
          ELSE Fulfilled(l))
    ELSE Rejected(apiError(resp), DefaultError("signup"), l)

loginUser(l, resp, oTok, oUsr) ==
    IF resolves(resp)
    THEN (IF resp.kind = "ok" /\ Truthy(resp.data.token)
          THEN storeSession(l, resp.data, DefaultError("login"), oTok, oUsr)
          ELSE Fulfilled(l))
    ELSE Rejected(apiError(resp), DefaultError("login"), l)

forgotPassword(l, resp) ==
    IF resolves(resp) THEN Fulfilled(l)
    ELSE Rejected(apiError(resp), DefaultError("forgotPassword"), l)

resetPassword(l, resp) ==
    IF resolves(resp) THEN Fulfilled(l)
    ELSE Rejected(apiError(resp), DefaultError("resetPassword"), l)

getUsers(l, resp) ==
    IF resolves(resp) THEN Fulfilled(l)
    ELSE Rejected(apiError(resp), DefaultError("getUsers"), l)

googleOAuthSuccess(l, data, oTok, oUsr) ==
    IF Truthy(data.token) /\ Truthy(data.user)
    THEN storeSession(l, data, DefaultError("googleOAuthSuccess"), oTok, oUsr)
    ELSE Fulfilled(l)

\* the thunk body of a gateway family on the response resp
thunk(fam, l, resp, oTok, oUsr) ==
    CASE fam = "signup" -> signupUser(l, resp, oTok, oUsr)
      [] fam = "login" -> loginUser(l, resp, oTok, oUsr)
      [] fam = "forgotPassword" -> forgotPassword(l, resp)
      [] fam = "resetPassword" -> resetPassword(l, resp)
      [] OTHER -> getUsers(l, resp)

\* extraReducers: the case of the action a thunk of family fam ended in
settleReducer(s, fam, resp, result) ==
    IF result.type = "fulfilled"
    THEN CASE fam \in {"signup", "login"} -> authFulfilled(s, resp.data)
           [] fam = "forgotPassword" -> forgotPasswordFulfilled(s, resp)
           [] fam = "resetPassword" -> resetPasswordFulfilled(s, resp)
           [] OTHER -> getUsersFulfilled(s, resp.users)
    ELSE CASE fam \in {"signup", "login"} -> authRejected(s, fam, result.error)
           [] fam = "forgotPassword" -> forgotPasswordRejected(s, result.error)
           [] fam = "resetPassword" -> resetPasswordRejected(s, result.error)
           [] OTHER -> getUsersRejected(s, result.error)

\* whether the thunk body of fam calls secureStorage.setToken / setUser on resp
writesSession(fam, resp) ==
    fam \in {"signup", "login"} /\ resp.kind = "ok" /\ Truthy(resp.data.token)

\* the transition the state sees when the thunk of fam ended in result: the
\* fulfilled or rejected case, or none when the fulfilled case threw
settledAs(fam, resp, result) ==
    IF result.type = "fulfilled" /\ fam \in {"signup", "login"} /\ reducerThrows(resp.data)
    THEN "threw"
    ELSE result.type

----------------------------------------------------------------------------
(* store/store.ts: the persisted envelope under 'persist:root' *)

\* encryptedStorage.setItem(key, value): the item written for the serialized
\* state, an encrypted blob that decrypts to the persisted partition
setItem(s) == <<"encrypted", [auth |-> s]>>

\* persist/REHYDRATE: encryptedStorage.getItem and the merge into the state
rehydrate(s, item) == IF item = NoEnvelope THEN s ELSE item[2].auth

\* the persistoid of redux-persist (throttle: 100): how many changes of the
\* authentication partition wait for the next tick of its timer: "none", "one"
\* or "many".  The partition is queued once; the tick writes the state of
\* that moment
update(queued, changed) ==
    IF ~changed THEN queued
    ELSE IF queued = "none" THEN "one" ELSE "many"

----------------------------------------------------------------------------
(* State, and the record of the last transition applied (a history         *)
(* variable: it is written by every action and read by none)               *)

\* op, fam: the transition and its family; kind: the kind of the response, or
\* for loadUserFromStorage whether both reads took the secure path;
\* hdr: the Authorization header of the request issued; tok, usr: the token and
\* user of the response (of a settled thunk), read from the store (by
\* loadUserFromStorage) or held by the state when the request was issued;
\* msg: the payload of a rejected action; was: isAuthenticated before a
\* rejected action, or whether an error or success message was set before a
\* pending action, or whether a throttled write took up several changes; sess: the session of the successful signup, login or
\* oauth-complete that a restart directly follows; said: the message of the
\* response; otok, ousr: how the secure-store call on the token and on the user
\* went that the transition made ("" when it made none); url: the callback URL
\* the OAuth callback handler ran on (a sequence of at most one URL); status:
\* the status the handler ended in
Ev(op, fam) ==
    [op |-> op, fam |-> fam, kind |-> "", hdr |-> NoHeader, tok |-> Null, usr |-> Null,
     msg |-> Null, was |-> FALSE, sess |-> NoData, said |-> Null, otok |-> "",
     ousr |-> "", url |-> <<>>, status |-> ""]

NoneInFlight == [f \in GatewayFamilies |-> 0]

\* a value of type string | null: null, or the string str
NullString == [null |-> TRUE, str |-> <<>>]
String(str) == [null |-> FALSE, str |-> str]

\* the encryption utilities at rest.  stage: what was done with the value v;
\* str: the string that came of it (the stored item); out, done: the result of
\* decryptData(str) and whether it ran; got, read: the result of the
\* persistence adapter's getItem and whether it ran
EncIdle == [stage |-> "idle", v |-> <<"null">>, str |-> <<>>, out |-> <<"none">>,
            done |-> FALSE, got |-> NullString, read |-> FALSE]

RECURSIVE SumOver(_, _)
SumOver(f, S) ==
    IF S = {} THEN 0
    ELSE LET x == CHOOSE y \in S : TRUE IN f[x] + SumOver(f, S \ {x})

InFlightCount == SumOver(inflight, GatewayFamilies)

Init ==
    /\ auth = initialState
    /\ ls = [k \in LsKeys |-> NoItem]
    /\ persisted = NoEnvelope
    /\ inflight = NoneInFlight
    /\ pc = "boot"
    /\ dirty = "none"
    /\ navPending = FALSE
    /\ ops = 0
    /\ lastEvent = Ev("init", "")
    /\ enc = EncIdle

----------------------------------------------------------------------------
(* Process start: App.tsx *)

\* PersistGate: the persisted envelope is merged into the state before
\* AppContent is rendered; the persistoid queues the partition for a write
Rehydrate ==
    /\ pc = "boot"
    /\ auth' = rehydrate(auth, persisted)
    /\ pc' = "rehydrated"
    /\ dirty' = update(dirty, TRUE)
    /\ lastEvent' = [Ev("rehydrate", "") EXCEPT !.sess = lastEvent.sess]
    /\ UNCHANGED <<enc, ops, ls, persisted, inflight, navPending>>

\* AppContent's effect: dispatch(loadUserFromStorage())
LoadUserFromStorage(oTok, oUsr) ==
    /\ pc = "rehydrated"
    /\ auth' = loadUserFromStorage(auth, getToken(ls, oTok), getUser(ls, oUsr))
    /\ pc' = "running"
    /\ dirty' = update(dirty, auth' # auth)
    /\ lastEvent' = [Ev("loadUserFromStorage", "") EXCEPT
                         !.kind = IF oTok = "ok" /\ oUsr = "ok" THEN "secure" ELSE "fallback",
                         !.tok = getToken(ls, oTok), !.usr = getUser(ls, oUsr),
                         !.sess = lastEvent.sess, !.otok = oTok, !.ousr = oUsr]
    /\ UNCHANGED <<enc, ops, ls, persisted, inflight, navPending>>

\* the page is reloaded or left and opened again: memory, timers and the
\* requests in flight are gone, localStorage stays
Restart ==
    /\ pc = "running"
    /\ ops < MaxOps
    /\ ops' = ops + 1
    /\ auth' = initialState
    /\ inflight' = NoneInFlight
    /\ pc' = "boot"
    /\ dirty' = "none"
    /\ navPending' = FALSE
    /\ lastEvent' = [Ev("restart", "") EXCEPT !.sess = lastEvent.sess]
    /\ UNCHANGED <<enc, ls, persisted>>

\* mutant: the tick writes the envelope and leaves the partition queued, so
\* the next tick writes again
PersistFlush_requeues ==
    /\ pc = "running"
    /\ dirty # "none"
    /\ persisted' = setItem(auth)
    /\ dirty' = dirty
    /\ lastEvent' = [Ev("flush", "") EXCEPT
                         !.sess = lastEvent.sess,
                         !.kind = IF lastEvent.op = "logout" THEN "afterLogout" ELSE "",
                         !.was = (dirty = "many")]
    /\ UNCHANGED <<enc, ops, auth, ls, inflight, pc, navPending>>

\* redux-persist's throttled write of the authentication partition, queued
\* (dirty) by every action that changed it
PersistFlush ==
    /\ pc = "running"
    /\ dirty # "none"
    /\ persisted' = setItem(auth)
    /\ dirty' = "none"
    /\ lastEvent' = [Ev("flush", "") EXCEPT
                         !.sess = lastEvent.sess,
                         !.kind = IF lastEvent.op = "logout" THEN "afterLogout" ELSE "",
                         !.was = (dirty = "many")]
    /\ UNCHANGED <<enc, ops, auth, ls, inflight, pc, navPending>>

----------------------------------------------------------------------------
(* Operations of the running application *)

\* dispatch of a gateway thunk: the pending case, and the request leaves
\* through the request interceptor
Dispatch(fam) ==
    /\ pc = "running"
    /\ ops < MaxOps
    /\ ops' = ops + 1
    /\ InFlightCount < MaxInFlight
    /\ auth' = pendingReducer(auth, fam)
    /\ inflight' = [inflight EXCEPT ![fam] = @ + 1]
    /\ dirty' = update(dirty, auth' # auth)
    /\ lastEvent' = [Ev("pending", fam) EXCEPT
                         !.hdr = requestInterceptor(ls), !.tok = auth.token,
                         !.usr = auth.user,
                         !.was = (auth.error # Null
                                  \/ auth.forgotPasswordMessage # Null
                                  \/ auth.resetPasswordMessage # Null)]
    /\ UNCHANGED <<enc, ls, persisted, pc, navPending>>

\* the response of a request in flight arrives: response interceptor, the rest
\* of the thunk body, and the fulfilled or rejected case, in one task
Settle(fam, resp, oTok, oUsr) ==
    /\ pc = "running"
    /\ inflight[fam] > 0
    /\ LET result == thunk(fam, responseInterceptor(ls, resp), resp, oTok, oUsr)
       IN /\ ls' = result.ls
          /\ auth' = settleReducer(auth, fam, resp, result)
          /\ lastEvent' = [Ev(settledAs(fam, resp, result), fam) EXCEPT
                               !.kind = resp.kind, !.tok = resp.data.token,
                               !.usr = resp.data.user, !.msg = result.error,
                               !.was = (result.type = "rejected" /\ auth.isAuthenticated),
                               !.sess = IF settledAs(fam, resp, result) = "fulfilled"
                                           /\ fam \in AuthFamilies
                                        THEN resp.data ELSE NoData,
                               !.said = resp.message,
                               !.otok = IF writesSession(fam, resp) THEN oTok ELSE "",
                               !.ousr = IF writesSession(fam, resp) /\ oTok # "throw"
                                        THEN oUsr ELSE ""]
    /\ inflight' = [inflight EXCEPT ![fam] = @ - 1]
    /\ navPending' = (navPending \/ redirectsToLogin(resp))
    /\ dirty' = update(dirty, auth' # auth)
    /\ UNCHANGED <<enc, ops, persisted, pc>>

\* components/OAuthCallback.tsx: the values searchParams.get returns for the
\* parameters of the callback URL (null when the parameter is absent)
CallbackURL(error, token, user) == [error |-> error, token |-> token, user |-> user]

\* the text of the user parameter for the user record u
UserText(u) == IF u = "u1" THEN "{\"id\":\"u1\"}" ELSE "{\"id\":\"u2\"}"

\* decodeURIComponent(userParam) throws a URIError on a stray percent sign and
\* returns a text without escapes as it is
decodeThrows(userParam) == userParam = "%"

\* JSON.parse of the user parameter: whether it throws, and the value
userParseThrows(userParam) == decodeThrows(userParam) \/ userParam = "{"
parsedUser(userParam) ==
    CASE userParam = UserText("u1") -> "u1"
      [] userParam = UserText("u2") -> "u2"
      [] OTHER -> Null

\* whether handleOAuthCallback gets as far as dispatch(googleOAuthSuccess(...)):
\* not when `error` is truthy, `token` or `user` is falsy, the user does not
\* parse, or `user.email` throws on a parsed null
callbackDispatches(url) ==
    /\ ~Truthy(url.error)
    /\ Truthy(url.token)
    /\ Truthy(url.user)
    /\ ~userParseThrows(url.user)
    /\ parsedUser(url.user) # Null

\* the effect of OAuthCallback: handleOAuthCallback on the callback URL.  The
\* thunk body of googleOAuthSuccess has no await, so its pending case, its body
\* and its settled case are one task
handleOAuthCallback(url, oTok, oUsr) ==
    /\ pc = "running"
    /\ ops < MaxOps
    /\ ops' = ops + 1
    /\ IF callbackDispatches(url)
       THEN LET data == [token |-> url.token, user |-> parsedUser(url.user)]
                result == googleOAuthSuccess(ls, data, oTok, oUsr)
                pending == pendingReducer(auth, "googleOAuthSuccess")
            IN /\ ls' = result.ls
               /\ auth' = IF result.type = "fulfilled"
                          THEN authFulfilled(pending, data)
                          ELSE authRejected(pending, "googleOAuthSuccess", result.error)
               /\ lastEvent' = [Ev(result.type, "googleOAuthSuccess") EXCEPT
                                    !.tok = data.token, !.usr = data.user,
                                    !.msg = result.error,
                                    !.was = (result.type = "rejected"
                                             /\ auth.isAuthenticated),
                                    !.sess = IF result.type = "fulfilled"
                                             THEN data ELSE NoData,
                                    !.otok = oTok,
                                    !.ousr = IF oTok # "throw" THEN oUsr ELSE "",
                                    !.url = <<url>>,
                                    !.status = IF result.type = "fulfilled"
                                               THEN "success" ELSE "error"]
       ELSE /\ ls' = ls
            /\ auth' = auth
            /\ lastEvent' = [Ev("callback", "") EXCEPT !.url = <<url>>,
                                                       !.status = "error"]
    /\ dirty' = update(dirty, auth' # auth)
    /\ UNCHANGED <<enc, persisted, inflight, pc, navPending>>

\* googleOAuth: assigns window.location.href and returns null
GoogleOAuth(threw) ==
    /\ pc = "running"
    /\ ops < MaxOps
    /\ ops' = ops + 1
    /\ auth' = IF threw
               THEN googleOAuthRejected(pendingReducer(auth, "googleOAuth"), STORAGE_ERROR)
               ELSE googleOAuthFulfilled(pendingReducer(auth, "googleOAuth"))
    /\ navPending' = (navPending \/ ~threw)
    /\ dirty' = update(dirty, auth' # auth)
    /\ lastEvent' = Ev(IF threw THEN "rejected" ELSE "fulfilled", "googleOAuth")
    /\ UNCHANGED <<enc, ls, persisted, inflight, pc>>

Logout(oTok, oUsr) ==
    /\ pc = "running"
    /\ ops < MaxOps
    /\ ops' = ops + 1
    /\ ls' = logoutStorage(ls, oTok, oUsr)
    /\ persisted' = NoEnvelope
    /\ auth' = logout(auth)
    /\ dirty' = update(dirty, auth' # auth)
    /\ lastEvent' = Ev("logout", "")
    /\ UNCHANGED <<enc, inflight, pc, navPending>>

ClearErrors ==
    /\ pc = "running"
    /\ ops < MaxOps
    /\ ops' = ops + 1
    /\ auth' = clearErrors(auth)
    /\ dirty' = update(dirty, auth' # auth)
    /\ lastEvent' = Ev("reducer", "")
    /\ UNCHANGED <<enc, ls, persisted, inflight, pc, navPending>>

ClearMessages ==
    /\ pc = "running"
    /\ ops < MaxOps
    /\ ops' = ops + 1
    /\ auth' = clearMessages(auth)
    /\ dirty' = update(dirty, auth' # auth)
    /\ lastEvent' = Ev("reducer", "")
    /\ UNCHANGED <<enc, ls, persisted, inflight, pc, navPending>>

ClearSuccessFlags ==
    /\ pc = "running"
    /\ ops < MaxOps
    /\ ops' = ops + 1
    /\ auth' = clearSuccessFlags(auth)
    /\ dirty' = update(dirty, auth' # auth)
    /\ lastEvent' = Ev("reducer", "")
    /\ UNCHANGED <<enc, ls, persisted, inflight, pc, navPending>>

SetLoading(payload) ==
    /\ pc = "running"
    /\ ops < MaxOps
    /\ ops' = ops + 1
    /\ auth' = setLoading(auth, payload)
    /\ dirty' = update(dirty, auth' # auth)
    /\ lastEvent' = Ev("reducer", "")
    /\ UNCHANGED <<enc, ls, persisted, inflight, pc, navPending>>

SetError(payload) ==
    /\ pc = "running"
    /\ ops < MaxOps
    /\ ops' = ops + 1
    /\ auth' = setError(auth, payload)
    /\ dirty' = update(dirty, auth' # auth)
    /\ lastEvent' = Ev("reducer", "")
    /\ UNCHANGED <<enc, ls, persisted, inflight, pc, navPending>>

\* the outcomes of the secure-store writes a thunk body makes on resp
WriteOutcomes(fam, resp) == IF writesSession(fam, resp) THEN SetOutcomes ELSE {"ok"}

\* the outcomes of setUser: it is not called when setToken threw
UserOutcomes(fam, resp, oTok) ==
    IF oTok = "throw" THEN {"ok"} ELSE WriteOutcomes(fam, resp)

\* what the gateway's redirect hands over: the token and the user record
OAuthArgs == Sessions

\* the callback URLs: the redirect of the gateway for a session, with or
\* without an error parameter, with a parameter left out or empty, or with a
\* user parameter that is no JSON, has a stray percent sign, or is `null`
CallbackURLs ==
    {CallbackURL(e, t, u) :
        e \in {Null, "", "access_denied"},
        t \in {Null, ""} \cup {d.token : d \in OAuthArgs},
        u \in {Null, "", "{", "%", "null"} \cup {UserText(d.user) : d \in OAuthArgs}}

\* a callback that stops before the dispatch makes no secure-store write
CallbackOutcomes(url) == IF callbackDispatches(url) THEN SetOutcomes ELSE {"ok"}

Next ==
    \/ Rehydrate
    \/ \E oTok \in CallOutcomes, oUsr \in CallOutcomes : LoadUserFromStorage(oTok, oUsr)
    \/ Restart
    \/ PersistFlush
    \/ \E fam \in GatewayFamilies : Dispatch(fam)
    \/ \E fam \in GatewayFamilies : \E resp \in Responses(fam) :
          \E oTok \in WriteOutcomes(fam, resp) : \E oUsr \in UserOutcomes(fam, resp, oTok) :
             Settle(fam, resp, oTok, oUsr)
    \/ \E url \in CallbackURLs : \E oTok \in CallbackOutcomes(url) :
          \E oUsr \in (IF oTok = "throw" THEN {"ok"} ELSE CallbackOutcomes(url)) :
             handleOAuthCallback(url, oTok, oUsr)
    \/ \E threw \in BOOLEAN : GoogleOAuth(threw)
    \/ \E oTok \in CallOutcomes, oUsr \in CallOutcomes : Logout(oTok, oUsr)
    \/ ClearErrors
    \/ ClearMessages
    \/ ClearSuccessFlags
    \/ \E payload \in BOOLEAN : SetLoading(payload)
    \/ \E payload \in {Null, "m1"} : SetError(payload)

Spec == Init /\ [][Next]_vars

----------------------------------------------------------------------------
(* The facade `secureStorage` on its own: its operations in any order *)

StoreSetToken(token, o) ==
    /\ ls' = setToken(ls, token, o)
    /\ lastEvent' = [Ev("setToken", "") EXCEPT !.tok = token, !.otok = o]
    /\ UNCHANGED <<enc, auth, persisted, inflight, pc, dirty, navPending, ops>>

StoreSetUser(user, o) ==
    /\ ls' = setUser(ls, user, o)
    /\ lastEvent' = [Ev("setUser", "") EXCEPT !.usr = user, !.ousr = o]
    /\ UNCHANGED <<enc, auth, persisted, inflight, pc, dirty, navPending, ops>>

StoreRemoveToken(o) ==
    /\ ls' = removeToken(ls, o)
    /\ lastEvent' = [Ev("removeToken", "") EXCEPT !.otok = o]
    /\ UNCHANGED <<enc, auth, persisted, inflight, pc, dirty, navPending, ops>>

StoreRemoveUser(o) ==
    /\ ls' = removeUser(ls, o)
    /\ lastEvent' = [Ev("removeUser", "") EXCEPT !.ousr = o]
    /\ UNCHANGED <<enc, auth, persisted, inflight, pc, dirty, navPending, ops>>

\* isWorking(); kind is the boolean it returned
IsWorking(oSet, oGet, oRem) ==
    /\ ls' = isSecureStorageWorking(ls, oSet, oGet, oRem).ls
    /\ lastEvent' = [Ev("isWorking", "") EXCEPT
                         !.kind = IF isSecureStorageWorking(ls, oSet, oGet, oRem).ret
                                  THEN "true" ELSE "false"]
    /\ UNCHANGED <<enc, auth, persisted, inflight, pc, dirty, navPending, ops>>

StorageNext ==
    \/ \E token \in Tokens, o \in SetOutcomes : StoreSetToken(token, o)
    \/ \E user \in Users, o \in SetOutcomes : StoreSetUser(user, o)
    \/ \E o \in CallOutcomes : StoreRemoveToken(o)
    \/ \E o \in CallOutcomes : StoreRemoveUser(o)
    \/ \E oSet \in CallOutcomes, oGet \in CallOutcomes, oRem \in CallOutcomes :
          IsWorking(oSet, oGet, oRem)

StorageSpec == Init /\ [][StorageNext]_vars

----------------------------------------------------------------------------
(* utils/encryption.ts.  A string is a sequence of units: a lexeme of JSON  *)
(* text, a quoted string literal, or a Base64 ciphertext.  A JSON value is  *)
(* a tagged tuple.  CryptoJS is opaque: AES.decrypt returns the plaintext   *)
(* of a ciphertext that AES.encrypt produced under the same passphrase, and *)
(* bytes the model does not know for any other input.                       *)

\* the longest array of the values encrypted
MaxLen == 2

Lex(x) == <<"lex", x>>
StrLit(x) == <<"strlit", x>>

\* the tag `encrypted:`
PREFIX == Lex("encrypted:")

\* the passphrase of this browser, and the one of another browser
ENCRYPTION_KEY == "k1"
OTHER_KEY == "k2"
\* the random salts CryptoJS draws for a passphrase encryption
Salts == {"s1", "s2"}

null == <<"null">>
Scalars ==
    {null, <<"bool", "true">>, <<"bool", "false">>, <<"num", "0">>, <<"num", "1">>,
     <<"str", "">>, <<"str", "encrypted:">>}
FlatValues ==
    {<<"arr", es>> : es \in UNION {[1..n -> Scalars] : n \in 0..MaxLen}}
    \cup {<<"obj", <<>>>>}
    \cup {<<"obj", <<<<"k", x>>>>>> : x \in Scalars}
\* the JSON-serializable values: scalars, arrays and objects of scalars, and
\* arrays and objects that hold one of those
JsonValues ==
    Scalars \cup FlatValues
    \cup {<<"arr", <<x>>>> : x \in FlatValues}
    \cup {<<"obj", <<<<"k", x>>>>>> : x \in FlatValues}

RECURSIVE JSONstringify(_), stringifyElements(_), stringifyMembers(_)
\* JSON.stringify(value)
JSONstringify(v) ==
    CASE v[1] = "null" -> <<Lex("null")>>
      [] v[1] \in {"bool", "num"} -> <<Lex(v[2])>>
      [] v[1] = "str" -> <<StrLit(v[2])>>
      [] v[1] = "arr" -> <<Lex("[")>> \o stringifyElements(v[2]) \o <<Lex("]")>>
      [] OTHER -> <<Lex("{")>> \o stringifyMembers(v[2]) \o <<Lex("}")>>

stringifyElements(es) ==
    IF Len(es) = 0 THEN <<>>
    ELSE IF Len(es) = 1 THEN JSONstringify(es[1])
    ELSE JSONstringify(es[1]) \o <<Lex(",")>> \o stringifyElements(Tail(es))

stringifyMembers(ms) ==
    IF Len(ms) = 0 THEN <<>>
    ELSE IF Len(ms) = 1 THEN <<StrLit(ms[1][1]), Lex(":")>> \o JSONstringify(ms[1][2])
    ELSE <<StrLit(ms[1][1]), Lex(":")>> \o JSONstringify(ms[1][2]) \o <<Lex(",")>>
           \o stringifyMembers(Tail(ms))

\* results of the parser: the value read and the text after it, or a failure
Parsed(v, rest) == [ok |-> TRUE, val |-> v, rest |-> rest]
SyntaxError == [ok |-> FALSE, val |-> null, rest |-> <<>>]

RECURSIVE parseValue(_), parseElements(_, _), parseMembers(_, _)
parseValue(t) ==
    IF Len(t) = 0 THEN SyntaxError
    ELSE LET u == t[1] IN
         CASE u[1] = "strlit" -> Parsed(<<"str", u[2]>>, Tail(t))
           [] u = Lex("null") -> Parsed(null, Tail(t))
           [] u \in {Lex("true"), Lex("false")} -> Parsed(<<"bool", u[2]>>, Tail(t))
           [] u \in {Lex("0"), Lex("1")} -> Parsed(<<"num", u[2]>>, Tail(t))
           [] u = Lex("[") ->
                IF Len(t) > 1 /\ t[2] = Lex("]")
                THEN Parsed(<<"arr", <<>>>>, Tail(Tail(t)))
                ELSE parseElements(Tail(t), <<>>)
           [] u = Lex("{") ->
                IF Len(t) > 1 /\ t[2] = Lex("}")
                THEN Parsed(<<"obj", <<>>>>, Tail(Tail(t)))
                ELSE parseMembers(Tail(t), <<>>)
           [] OTHER -> SyntaxError

parseElements(t, acc) ==
    LET r == parseValue(t) IN
    IF ~r.ok \/ Len(r.rest) = 0 THEN SyntaxError
    ELSE IF r.rest[1] = Lex(",") THEN parseElements(Tail(r.rest), Append(acc, r.val))
    ELSE IF r.rest[1] = Lex("]") THEN Parsed(<<"arr", Append(acc, r.val)>>, Tail(r.rest))
    ELSE SyntaxError

parseMembers(t, acc) ==
    IF Len(t) < 3 \/ t[1][1] # "strlit" \/ t[2] # Lex(":") THEN SyntaxError
    ELSE LET r == parseValue(Tail(Tail(t))) IN
         IF ~r.ok \/ Len(r.rest) = 0 THEN SyntaxError
         ELSE IF r.rest[1] = Lex(",")
              THEN parseMembers(Tail(r.rest), Append(acc, <<t[1][2], r.val>>))
         ELSE IF r.rest[1] = Lex("}")
              THEN Parsed(<<"obj", Append(acc, <<t[1][2], r.val>>)>>, Tail(r.rest))
         ELSE SyntaxError

\* what a try block ends in: it returned val, or it threw
Returned(v) == [threw |-> FALSE, val |-> v]
Threw == [threw |-> TRUE, val |-> null]

\* JSON.parse(text): the value, or a SyntaxError
JSONparse(text) ==
    LET r == parseValue(text) IN
    IF r.ok /\ Len(r.rest) = 0 THEN Returned(r.val) ELSE Threw

\* the Base64 text CryptoJS.AES.encrypt(plain, key).toString() yields with the
\* salt it drew
Cipher(key, salt, plain) == <<"aes", key, salt, plain>>
\* that text with one byte changed
TamperedCipher(ct) == <<"aes!", ct[2], ct[3], ct[4]>>

\* the bytes CryptoJS.AES.decrypt yields: whether toString(CryptoJS.enc.Utf8)
\* accepts them, and the text it returns
Utf8(text) == [utf8 |-> TRUE, text |-> text]
Malformed == [utf8 |-> FALSE, text |-> <<>>]
\* what the decryption of a ciphertext that was changed, or that was made
\* under another passphrase, may be: no UTF-8, an empty text, a text that is no
\* JSON, or the JSON text of some value
UnknownBytes ==
    {Malformed, Utf8(<<>>), Utf8(<<Lex("]")>>), Utf8(JSONstringify(<<"num", "1">>)),
     Utf8(JSONstringify(<<"arr", <<>>>>))}

\* CryptoJS.AES.decrypt(rest, key): bytes is what it yields when rest is not a
\* ciphertext made under key
AESdecrypt(rest, key, bytes) ==
    IF Len(rest) = 0 THEN Utf8(<<>>)
    ELSE IF Len(rest) = 1 /\ rest[1][1] = "aes" /\ rest[1][2] = key THEN Utf8(rest[1][4])
    ELSE bytes

startsWith(str, unit) == Len(str) > 0 /\ str[1] = unit

\* mutant: the tag is left out of the encrypted string
encryptData_untagged(data, salt, o) ==
    IF o = "ok" THEN <<Cipher(ENCRYPTION_KEY, salt, JSONstringify(data))>>
    ELSE JSONstringify(data)

\* encryptData(data): salt is the salt CryptoJS draws; o = "throw" when the
\* encryption throws and the catch returns the plain JSON text
encryptData(data, salt, o) ==
    IF o = "ok" THEN <<PREFIX, Cipher(ENCRYPTION_KEY, salt, JSONstringify(data))>>
    ELSE JSONstringify(data)

\* the try block of decryptData
decryptBody(encryptedData, bytes) ==
    IF ~startsWith(encryptedData, PREFIX) THEN JSONparse(encryptedData)
    ELSE LET decrypted == AESdecrypt(Tail(encryptedData), ENCRYPTION_KEY, bytes) IN
         IF decrypted.utf8 THEN JSONparse(decrypted.text) ELSE Threw

\* mutant: a string without the tag is not parsed
decryptData_taggedOnly(encryptedData, bytes) ==
    IF ~startsWith(encryptedData, PREFIX) THEN null
    ELSE IF decryptBody(encryptedData, bytes).threw THEN null
    ELSE decryptBody(encryptedData, bytes).val

\* decryptData(encryptedData): the value of the try block, or null from the catch
decryptData(encryptedData, bytes) ==
    IF decryptBody(encryptedData, bytes).threw THEN null
    ELSE decryptBody(encryptedData, bytes).val

\* store/store.ts, encryptedStorage.setItem(key, value): the string that
\* localStorage holds afterwards
encryptedStorage_setItem(value, salt, o) ==
    IF JSONparse(value).threw THEN value
    ELSE encryptData(JSONparse(value).val, salt, o)

\* mutant: getItem hands out the stored string as it is
encryptedStorage_getItem_raw(stored, bytes) == stored

\* store/store.ts, encryptedStorage.getItem(key): stored is what
\* localStorage.getItem(key) returns
encryptedStorage_getItem(stored, bytes) ==
    IF stored.null \/ stored.str = <<>> THEN NullString
    ELSE IF startsWith(stored.str, PREFIX)
         THEN String(JSONstringify(decryptData(stored.str, bytes)))
         ELSE stored

\* the envelopes redux-persist serializes: objects
Envelopes == {v \in JsonValues : v[1] = "obj"}

\* strings that are neither an encrypted blob nor JSON text: the empty string,
\* broken JSON, text after a value, and the tag alone
BrokenStrings ==
    {<<>>, <<Lex("]")>>, <<Lex("["), Lex("0")>>, <<Lex("0"), Lex("0")>>,
     <<Lex("{"), StrLit("k"), Lex("}")>>, <<PREFIX>>}

\* Runs of the utilities: a value is encrypted, or written as plain JSON by an
\* older version, or a string comes from elsewhere; the string is then decrypted
EncInit ==
    /\ auth = initialState
    /\ ls = [k \in LsKeys |-> NoItem]
    /\ persisted = NoEnvelope
    /\ inflight = NoneInFlight
    /\ pc = "boot"
    /\ dirty = "none"
    /\ navPending = FALSE
    /\ ops = 0
    /\ lastEvent = Ev("init", "")
    /\ enc \in {[EncIdle EXCEPT !.stage = "input", !.v = v] : v \in JsonValues}

\* the string str takes the place of what was stored; results of earlier
\* reads belong to the string they read
written(stage, str) ==
    [enc EXCEPT !.stage = stage, !.str = str, !.out = EncIdle.out, !.done = FALSE,
                !.got = EncIdle.got, !.read = FALSE]

Encrypt(salt, o) ==
    /\ enc.stage = "input"
    /\ enc' = written("encrypted", encryptData(enc.v, salt, o))
    /\ UNCHANGED appVars

\* a legacy entry: the plain JSON text of the value
StorePlain ==
    /\ enc.stage = "input"
    /\ enc' = written("legacy", JSONstringify(enc.v))
    /\ UNCHANGED appVars

\* the value was encrypted in another browser, under its passphrase
EncryptElsewhere(salt) ==
    /\ enc.stage = "input"
    /\ enc' = written("foreign",
                      <<PREFIX, Cipher(OTHER_KEY, salt, JSONstringify(enc.v))>>)
    /\ UNCHANGED appVars

\* a byte of the ciphertext portion of an encrypted blob is changed
Tamper ==
    /\ enc.stage \in {"encrypted", "persisted"}
    /\ startsWith(enc.str, PREFIX)
    /\ enc' = written("tampered", <<PREFIX, TamperedCipher(enc.str[2])>>)
    /\ UNCHANGED appVars

Corrupt(str) ==
    /\ enc.stage = "input"
    /\ enc' = written("broken", str)
    /\ UNCHANGED appVars

\* decryptData(enc.str); the block cipher is a bijection, so a changed
\* ciphertext does not decrypt to the text the original one held
Decrypt(bytes) ==
    /\ enc.stage \in {"encrypted", "legacy", "foreign", "tampered", "broken"}
    /\ ~enc.done
    /\ ~enc.read
    /\ enc.stage = "tampered" => bytes # Utf8(enc.str[2][4])
    /\ enc' = [enc EXCEPT !.done = TRUE, !.out = decryptData(enc.str, bytes)]
    /\ UNCHANGED appVars

\* the persistoid writes the serialized envelope through the adapter
SetItem(salt, o) ==
    /\ enc.stage = "input"
    /\ enc.v \in Envelopes
    /\ enc' = written("persisted",
                      encryptedStorage_setItem(JSONstringify(enc.v), salt, o))
    /\ UNCHANGED appVars

\* getStoredState reads the envelope through the adapter; at stage "input"
\* nothing is stored under the key
GetItem(bytes) ==
    /\ enc.stage \in {"input", "persisted", "encrypted", "legacy", "foreign", "tampered",
                      "broken"}
    /\ ~enc.read
    /\ enc.stage = "tampered" => bytes # Utf8(enc.str[2][4])
    /\ enc' = [enc EXCEPT
                  !.read = TRUE,
                  !.got = encryptedStorage_getItem(
                              IF enc.stage = "input" THEN NullString ELSE String(enc.str),
                              bytes)]
    /\ UNCHANGED appVars

EncNext ==
    \/ \E salt \in Salts, o \in {"ok", "throw"} : SetItem(salt, o)
    \/ \E bytes \in UnknownBytes : GetItem(bytes)
    \/ \E salt \in Salts, o \in {"ok", "throw"} : Encrypt(salt, o)
    \/ StorePlain
    \/ \E salt \in Salts : EncryptElsewhere(salt)
    \/ Tamper
    \/ \E str \in BrokenStrings : Corrupt(str)
    \/ \E bytes \in UnknownBytes : Decrypt(bytes)

EncSpec == EncInit /\ [][EncNext]_vars

----------------------------------------------------------------------------
(* Observations the claims use *)

\* getToken() / getUser() return null, however the secure-ls read goes
StoreHasNoToken == \A o \in CallOutcomes : getToken(ls, o) = Null
StoreHasNoUser == \A o \in CallOutcomes : getUser(ls, o) = Null

\* getToken() / getUser() return v on the secure path or on the fallback path
StoreReturnsToken(v) == \E o \in CallOutcomes : getToken(ls, o) = v
StoreReturnsUser(v) == \E o \in CallOutcomes : getUser(ls, o) = v

SessionConsistent(s) == s.isAuthenticated <=> (s.user # Null /\ s.token # Null)

----------------------------------------------------------------------------
(* Claims *)

\* C1: in every reachable state isAuthenticated is true if and only if user
\* and token are both non-null.
C1_AuthenticatedIffSession == SessionConsistent(auth)

C1_Witness ==
    /\ lastEvent.op = "fulfilled"
    /\ lastEvent.fam = "login"
    /\ auth.isAuthenticated
    /\ auth.user # Null
    /\ auth.token # Null

\* C2: after logout() the state has user = null, token = null and
\* isAuthenticated = false, and getToken() and getUser() return null, from
\* every prior state.  (The code leaves the fallback keys, or the secure
\* entries, behind when the write and the remove took different paths.)
C2_LogoutComplete ==
    lastEvent.op = "logout" =>
        /\ auth.user = Null
        /\ auth.token = Null
        /\ ~auth.isAuthenticated
        /\ StoreHasNoToken
        /\ StoreHasNoUser

\* C3: when the fulfilled transition of signup, login, oauth-complete or of a
\* reset-password that carries auth data is applied, the state holds the
\* response's user and token and the secure store returns the same.
\* (resetPassword never writes the store.)
C3_FulfilledWritesThrough ==
    (/\ lastEvent.op = "fulfilled"
     /\ \/ lastEvent.fam \in AuthFamilies
        \/ lastEvent.fam = "resetPassword" /\ lastEvent.tok # Null)
    => /\ auth.user = lastEvent.usr
       /\ auth.token = lastEvent.tok
       /\ StoreReturnsToken(lastEvent.tok)
       /\ StoreReturnsUser(lastEvent.usr)

\* C4: after a 401 response of any gateway call neither the secure store nor
\* the state holds a token or user, and navigation to the login page has been
\* forced.  (The interceptor removes only the keys 'token' and 'user'.)
C4_UnauthorizedClearsSession ==
    lastEvent.kind = "unauthorized" =>
        /\ StoreHasNoToken
        /\ StoreHasNoUser
        /\ auth.token = Null
        /\ auth.user = Null
        /\ navPending

\* C5: a rejected signup, login or oauth-complete, in any prior state, leaves
\* user = null, token = null, isAuthenticated = false and error = the
\* extracted message.
C5_AuthRejectionRollsBack ==
    (lastEvent.op = "rejected" /\ lastEvent.fam \in AuthFamilies) =>
        /\ auth.user = Null
        /\ auth.token = Null
        /\ ~auth.isAuthenticated
        /\ auth.error = lastEvent.msg
        /\ auth.error # Null

\* a rejection applied to an authenticated state
C5_Witness ==
    /\ lastEvent.op = "rejected"
    /\ lastEvent.fam = "login"
    /\ lastEvent.was
    /\ auth.error = "m1"

\* C6: a rejected forgot-password, reset-password or list-users leaves user,
\* token and isAuthenticated as they were; only error, isLoading and the
\* family's own message change.
C6_NonDestructiveRejection ==
    [][(lastEvent'.op = "rejected"
        /\ lastEvent'.fam \in {"forgotPassword", "resetPassword", "getUsers"})
       => /\ auth'.user = auth.user
          /\ auth'.token = auth.token
          /\ auth'.isAuthenticated = auth.isAuthenticated
          /\ auth'.users = auth.users
          /\ (lastEvent'.fam # "forgotPassword"
                => auth'.forgotPasswordMessage = auth.forgotPasswordMessage)
          /\ (lastEvent'.fam # "resetPassword"
                => auth'.resetPasswordMessage = auth.resetPasswordMessage)]_vars

\* a non-destructive rejection applied to an authenticated state
C6_Witness ==
    /\ lastEvent.op = "rejected"
    /\ lastEvent.fam = "forgotPassword"
    /\ lastEvent.was
    /\ auth.isAuthenticated
    /\ auth.error # Null

\* C7: the secure store holds both a token and a user or neither: getToken()
\* is null exactly when getUser() is.  (The two writes, and the two removes,
\* fall back independently.)
C7_StoreHoldsBothOrNeither ==
    (getToken(ls, "ok") = Null) <=> (getUser(ls, "ok") = Null)

\* C8: loadUserFromStorage sets user, token and isAuthenticated = true only
\* when getToken() and getUser() both return a value, and otherwise the three
\* are null, null and false afterwards.  (It leaves the rehydrated state.)
C8_LoadNeverPartial ==
    lastEvent.op = "loadUserFromStorage" =>
        /\ SessionConsistent(auth)
        /\ IF Truthy(lastEvent.tok) /\ Truthy(lastEvent.usr)
           THEN /\ auth.user = lastEvent.usr
                /\ auth.token = lastEvent.tok
                /\ auth.isAuthenticated
           ELSE /\ auth.user = Null
                /\ auth.token = Null
                /\ ~auth.isAuthenticated

\* C9: after a successful login, signup or oauth-complete, a restart followed
\* by loadUserFromStorage reaches isAuthenticated = true with the same user
\* and token; stated for a start-up whose secure-store reads do not throw.
\* (A session written on the fallback path is not read back.)
C9_ReloadRestoresSession ==
    (/\ lastEvent.op = "loadUserFromStorage"
     /\ lastEvent.kind = "secure"
     /\ lastEvent.sess # NoData)
    => /\ auth.isAuthenticated
       /\ auth.user = lastEvent.sess.user
       /\ auth.token = lastEvent.sess.token

\* C10: a gateway request issued while the state and the secure store hold a
\* session token carries the header 'Bearer <token>'.  (The interceptor reads
\* the key 'token', which only the fallback path writes.)
C10_RequestsCarryBearer ==
    (/\ lastEvent.op = "pending"
     /\ lastEvent.fam \in GatewayFamilies
     /\ lastEvent.tok # Null
     /\ StoreReturnsToken(lastEvent.tok))
    => lastEvent.hdr = Bearer(lastEvent.tok)

----------------------------------------------------------------------------
\* every family the slice has pending / fulfilled / rejected cases for
AllFamilies == GatewayFamilies \cup {"googleOAuth", "googleOAuthSuccess"}

\* the state the persisted envelope would restore (the initial state when
\* there is no envelope)
EnvelopeState == rehydrate(initialState, persisted)

\* C11: a gateway response with success:false and a message m ends in the
\* family's rejected transition with error = m (for login, isAuthenticated is
\* false and user is null as well); a transport failure without response ends
\* in the rejected transition with the generic network-error message.
C11_RejectionSurfacesMessage ==
    /\ (lastEvent.kind \in {"fail", "success_false"} /\ Truthy(lastEvent.said)) =>
          /\ lastEvent.op = "rejected"
          /\ auth.error = lastEvent.said
          /\ (lastEvent.fam = "login" => ~auth.isAuthenticated /\ auth.user = Null)
    /\ lastEvent.kind = "network" =>
          /\ lastEvent.op = "rejected"
          /\ auth.error = NETWORK_ERROR
          /\ (lastEvent.fam = "login" => ~auth.isAuthenticated /\ auth.user = Null)

\* C12: right after logout, and after the throttled write of the envelope that
\* follows it, no storage location holds a token or a user: neither the
\* secure-store entries, nor the fallback entries 'token' and 'user', nor the
\* persisted envelope.
C12_LogoutPurgesStorage ==
    (lastEvent.op = "logout" \/ (lastEvent.op = "flush" /\ lastEvent.kind = "afterLogout")) =>
        /\ \A k \in LsKeys : ls[k] = NoItem
        /\ EnvelopeState.token = Null
        /\ EnvelopeState.user = Null

C14_LifecycleCompletes ==
    [][(pc' = "running" /\ \E f \in GatewayFamilies : inflight'[f] < inflight[f]) =>
          (lastEvent'.op \in {"fulfilled", "rejected"} /\ ~auth'.isLoading)]_vars

\* C15: when loadUserFromStorage finds a stored token or user that cannot be
\* decoded (the secure read of an existing entry throws), the state is
\* unauthenticated afterwards and the undecodable entry is removed.
C15_UndecodableSessionDestroyed ==
    [][(/\ lastEvent'.op = "loadUserFromStorage"
        /\ \/ (lastEvent'.otok = "fallback" /\ ls[SECURE_TOKEN] # NoItem)
           \/ (lastEvent'.ousr = "fallback" /\ ls[SECURE_USER] # NoItem)) =>
          /\ ~auth'.isAuthenticated
          /\ (lastEvent'.otok = "fallback" => ls'[SECURE_TOKEN] = NoItem)
          /\ (lastEvent'.ousr = "fallback" => ls'[SECURE_USER] = NoItem)]_vars

\* C20: when the secure write of the token or of the user fails and the value
\* goes to the fallback entry, getToken() / getUser() return the value written
\* whether the secure read works or throws (so loadUserFromStorage after a
\* restart finds it).
C20_FallbackReadable ==
    (lastEvent.op = "fulfilled" /\ lastEvent.fam \in AuthFamilies) =>
        /\ (lastEvent.otok = "fallback" =>
               \A o \in CallOutcomes : getToken(ls, o) = lastEvent.tok)
        /\ (lastEvent.ousr = "fallback" =>
               \A o \in CallOutcomes : getUser(ls, o) = lastEvent.usr)

\* C16: decryptData(encryptData(v)) = v for every JSON-serializable value v,
\* whichever salt the encryption draws and also when it falls back to the
\* plain JSON text.
C16_RoundTrip ==
    (enc.done /\ enc.stage = "encrypted") => enc.out = enc.v

\* an array of MaxLen elements was encrypted into a tagged blob and decrypted
C16_Witness ==
    /\ enc.done
    /\ enc.stage = "encrypted"
    /\ startsWith(enc.str, PREFIX)
    /\ enc.v[1] = "arr"
    /\ Len(enc.v[2]) = MaxLen
    /\ enc.out = enc.v

\* C17: decryptData of the untagged plain string JSON.stringify(v) is v, for
\* every JSON-serializable value v.
C17_LegacyPlaintext ==
    (enc.done /\ enc.stage = "legacy") => enc.out = enc.v

\* the plain JSON text of the string "encrypted:" was decrypted
C17_Witness ==
    /\ enc.done
    /\ enc.stage = "legacy"
    /\ enc.v = <<"str", "encrypted:">>
    /\ enc.out = enc.v

\* C18: decryptData returns null, and does not throw, for the empty string, for
\* an untagged string that is not valid JSON, and for a tagged blob whose
\* ciphertext is corrupt or was produced under another key.
C18_FailureYieldsNull ==
    (enc.done /\ enc.stage \in {"broken", "tampered", "foreign"}) => enc.out = null

\* C19: after a byte of the ciphertext portion of encryptData(v) is changed,
\* decryptData returns null, never another value.
C19_TamperDetected ==
    (enc.done /\ enc.stage = "tampered") => enc.out = null

\* C21: the callback handler ends in status 'error' without dispatching
\* googleOAuthSuccess whenever the error parameter is present, the token or the
\* user parameter is missing, or the user parameter is not parseable JSON;
\* googleOAuthSuccess is dispatched only when error is absent and token and a
\* parseable user are present.  (An error parameter that is present but empty
\* passes `if (error)`.)
C21_CallbackRejectsBadURL ==
    \A i \in 1..Len(lastEvent.url) :
        LET url == lastEvent.url[i]
            bad == \/ url.error # Null
                   \/ url.token = Null
                   \/ url.user = Null
                   \/ userParseThrows(url.user)
        IN /\ bad => (lastEvent.status = "error" /\ lastEvent.fam # "googleOAuthSuccess")
           /\ lastEvent.fam = "googleOAuthSuccess" => ~bad

C23_AdapterRoundTrip ==
    (enc.read /\ enc.stage = "persisted") =>
        /\ ~enc.got.null
        /\ JSONparse(enc.got.str) = JSONparse(JSONstringify(enc.v))
        /\ JSONparse(enc.got.str) = Returned(enc.v)

\* an envelope with a string member went through the adapter as a tagged blob
C23_Witness ==
    /\ enc.read
    /\ enc.stage = "persisted"
    /\ startsWith(enc.str, PREFIX)
    /\ enc.v = <<"obj", <<<<"k", <<"str", "encrypted:">>>>>>>>
    /\ JSONparse(enc.got.str) = Returned(enc.v)

\* C30: the adapter's getItem returns null when the key is absent and when the
\* stored tagged blob cannot be decrypted or parsed, never a non-null string.
\* (It returns JSON.stringify(null), the string "null".)
C30_UndecodableReadsNull ==
    (/\ enc.read
     /\ \/ enc.stage \in {"input", "foreign", "tampered"}
        \/ enc.stage = "broken" /\ startsWith(enc.str, PREFIX)) => enc.got.null

\* C24: isWorking() returns a boolean without throwing, and whichever it
\* returns, the stored token and user entries are as they were before the call
\* and no sentinel entry is left in storage.  (The sentinel stays when the
\* read or the remove throws.)
C24_IsWorkingLeavesNoTrace ==
    [][lastEvent'.op = "isWorking" =>
          /\ lastEvent'.kind \in {"true", "false"}
          /\ \A k \in LsKeys \ {TEST_KEY} : ls'[k] = ls[k]
          /\ ls'[TEST_KEY] = NoItem]_vars

\* a step in which the response of a request in flight is handled
SettleStep == pc' = "running" /\ \E f \in GatewayFamilies : inflight'[f] < inflight[f]

\* C25: whenever no operation is in flight, the session in memory equals the
\* session of the secure store: state.token = getToken() and state.user =
\* getUser().  (A rejected login clears only the state, reset-password sets
\* only the state, a 401 clears only storage.)
C25_MemoryMatchesStore ==
    (pc = "running" /\ InFlightCount = 0) =>
        /\ StoreReturnsToken(auth.token)
        /\ StoreReturnsUser(auth.user)

\* C26: a request that was in flight when logout ran does not bring a session
\* back when its response arrives: the state stays unauthenticated and the
\* secure store stays empty.  (The response of the earlier login is applied
\* as if logout had not happened.)
C26_LogoutOutlastsInFlight ==
    [][(lastEvent.op = "logout" /\ SettleStep) =>
          /\ ~auth'.isAuthenticated
          /\ auth'.token = Null
          /\ auth'.user = Null
          /\ \A k \in LsKeys : ls[k] = NoItem => ls'[k] = NoItem]_vars

\* C27: whenever an operation of any family is in flight, isLoading is true,
\* also when several are outstanding and one of them settles first.  (Every
\* settled case sets the one flag to false.)
C27_LoadingWhileInFlight ==
    (pc = "running" /\ InFlightCount > 0) => auth.isLoading

\* C28: whenever isLoading is true some operation is in flight, in particular
\* after a restart (rehydration, then loadUserFromStorage).  (isLoading is
\* persisted with the partition and restored as it was.)
C28_LoadingImpliesInFlight ==
    (pc = "running" /\ auth.isLoading) => InFlightCount > 0

\* C29: when two login or signup operations were in flight together and both
\* succeeded, then after the second has settled the token and user in memory
\* are the ones getToken() and getUser() return.  (Holds when both sessions
\* went to the same entries; the fallback entries are not read back.)
C29_RaceWinnerIsStored ==
    [][(/\ lastEvent.op = "fulfilled"
        /\ lastEvent.fam \in {"signup", "login"}
        /\ SettleStep
        /\ lastEvent'.op = "fulfilled"
        /\ lastEvent'.fam \in {"signup", "login"}) =>
          /\ auth'.token = lastEvent'.tok
          /\ auth'.user = lastEvent'.usr
          /\ getToken(ls', "ok") = auth'.token
          /\ getUser(ls', "ok") = auth'.user]_vars

====
